---- MODULE Spec2Model ----
(***************************************************************************)
(* Gesture pipeline of the two effects of christmas-magic: the Christmas   *)
(* tree (src/script.js) and the Starry night (src/unnamed/part_000).       *)
(*                                                                         *)
(* Numbers.  The program computes with JavaScript doubles.  The model uses *)
(* fixed-point integers: the value v stands for v / Unit, so 0.06 is 600   *)
(* and 0.0005 is 5.  A product with a decimal factor is truncated toward   *)
(* zero (Scale).  Time is in milliseconds.  The group's rotation and the   *)
(* rotation velocity are kept AngleScale times finer (v stands for         *)
(* v / (Unit * AngleScale) radians), so that velocities below the inertia  *)
(* cutoff of 0.0001 are distinct from zero.                                *)
(***************************************************************************)
EXTENDS Integers, Sequences, FiniteSets, TLC

VARIABLES
    effect,               \* "tree" (script.js) or "starry" (part_000): the module that is running
    lm,                   \* the landmark frame of the latest detector result (NoFrame: none yet, or no hand)
    lastGesture, gestureStartTime, lastHandPos, smoothedPos,
    isGestureActive, autoRotate, gestureVelocity,
    isFistShape,          \* tree only
    isExploded,           \* tree only
    isScattered,          \* starry only
    lastHandSize, smoothedHandSize, handSizeBaseline, handSizeCalibrated,
    rotation,             \* treeGroup.rotation / starGroup.rotation
    cameraZ,              \* camera.position.z
    expandedPhoto, selectedPhoto,
    inScene,              \* photos removed from treeGroup and added to scene
    closeAnims,           \* animateClose chains in flight: photo -> number of chains
    starPos, starVel,     \* position / userData.velocity of a constellation star
    particle,             \* tree: position and velocity of a tree particle
    photoBody,            \* tree: position and userData.velocity of each photo
    gift,                 \* tree: position and userData.velocity of a gift box
    treeStar,             \* tree: position and userData.velocity of the star on the tree top
    giftBoxes, giftTargets, giftSphereTargets,
                          \* tree: the lengths of the three gift arrays
    frameLoops,           \* effect -> the requestAnimationFrame chains of its animate that are running
    parked,               \* the state of the module that is loaded but not selected (NotLoaded: none)
    handsCallback,        \* the module whose onResults is registered with hands.onResults
    buttonsDisabled,      \* the two switcher buttons are disabled
    now,                  \* performance.now()
    ev,                   \* history: the step that led to this state
    res, prevRes,         \* history: classification of the latest detector result ("NO_HAND" when it
                          \* held no hand, "?" before the first), and of the one before
    pre,                  \* history: values read at the start of the latest step
    nHands,               \* history: detector results with a hand so far
    dwell,                \* history: the photo that has been the hovered target, with POINT as
                          \* the gesture, on every detector result since time dwell.since
    calls,                \* history: the calls the latest animation frame made, in order
    rendered,             \* history: the scenes the latest animation frame handed to the renderer
    hold,                 \* history: whether the latest detector result left the smoothed pointer where
                          \* it was, which photo was expanded when it arrived, and whether an
                          \* animateClose chain has ended since
    nSteps                \* history: steps taken, for the bounds

vars == << effect, lm, lastGesture, gestureStartTime, lastHandPos, smoothedPos,
           isGestureActive, autoRotate, gestureVelocity, isFistShape, isExploded,
           isScattered, lastHandSize, smoothedHandSize, handSizeBaseline,
           handSizeCalibrated, rotation, cameraZ, expandedPhoto, selectedPhoto,
           inScene, closeAnims, starPos, starVel, particle, photoBody, gift, treeStar,
           giftBoxes, giftTargets, giftSphereTargets, frameLoops, parked, handsCallback, buttonsDisabled,
           now, ev, res, prevRes, pre, nHands, dwell, calls, rendered, hold, nSteps >>

-----------------------------------------------------------------------------
(* Bounds of the model *)

MaxSteps == 4           \* steps of a behaviour of Spec
MaxPhotoSteps == 6      \* steps of a behaviour of SpecPhoto
ResultInterval == 300   \* milliseconds between two detector results
MaxDegenerateSteps == 4 \* steps of a behaviour of SpecDegenerate
MaxDrags == 2           \* detector results with a hand in a behaviour of SpecInertia
MaxInertiaSteps == 26   \* steps of a behaviour of SpecInertia
MaxHoldSteps == 6       \* steps of a behaviour of SpecHold
MaxConvergeSteps == 260 \* animation frames of a behaviour of SpecConverge
MaxStarSteps == 1010    \* steps of a behaviour of SpecStar
MaxCloseSteps == 6      \* clicks and detector results of a behaviour of SpecClose
MaxSwitchSteps == 6      \* steps of a behaviour of SpecSwitch

-----------------------------------------------------------------------------
(* Numbers *)

Unit == 10000

AngleScale == 100

Null == "null"

Abs(a) == IF a < 0 THEN -a ELSE a
Max(a, b) == IF a > b THEN a ELSE b
Min(a, b) == IF a < b THEN a ELSE b

\* a * num / den, truncated toward zero
Scale(a, num, den) ==
    IF a >= 0 THEN (a * num) \div den ELSE -(((-a) * num) \div den)

Clamp(lo, hi, v) == Max(lo, Min(hi, v))

RECURSIVE SqrtFrom(_, _)
SqrtFrom(n, r) ==
    LET r2 == (r + n \div r) \div 2
    IN  IF r2 >= r THEN r ELSE SqrtFrom(n, r2)

\* floor of the square root (Newton's iteration from above)
Sqrt(n) == IF n <= 0 THEN 0 ELSE SqrtFrom(n, n)

\* Math.hypot(dx, dy)
Hypot(dx, dy) == Sqrt(dx * dx + dy * dy)

\* THREE.Vector3 as <<x, y, z>>
VAdd(a, b) == << a[1] + b[1], a[2] + b[2], a[3] + b[3] >>
VSub(a, b) == << a[1] - b[1], a[2] - b[2], a[3] - b[3] >>
VScale(a, num, den) == << Scale(a[1], num, den), Scale(a[2], num, den), Scale(a[3], num, den) >>
LengthSq(a) == a[1] * a[1] + a[2] * a[2] + a[3] * a[3]

\* Vector3.length(), rounded up
Length(a) ==
    LET r == Sqrt(LengthSq(a))
    IN  IF r * r = LengthSq(a) THEN r ELSE r + 1

-----------------------------------------------------------------------------
(* Landmark frames: 21 points, index 0..20, each [x, y] *)

Gestures == {"NONE", "FIST", "OPEN_PALM", "PINCH", "POINT", "V_SIGN"}

Pt(x, y) == [x |-> x, y |-> y]

NoFrame == [i \in {} |-> Pt(0, 0)]

\* A hand whose palm centre is (cx, cy): wrist and middle MCP are span below and
\* above it, the four PIP joints lie in a row 2*span above it, an extended
\* finger's tip is span above its PIP joint and a curled one's span/2 below it,
\* and the thumb tip is at offset th from the index tip.
MakeFrame(cx, cy, span, th, ie, me, re, pe) ==
    LET pipY == cy - 2 * span
        tipY(ext) == IF ext THEN pipY - span ELSE pipY + span \div 2
        f == [i \in 0..20 |-> Pt(cx, cy)]
    IN  [f EXCEPT ![0]  = Pt(cx, cy + span),
                  ![9]  = Pt(cx, cy - span),
                  ![6]  = Pt(cx - 300, pipY),
                  ![10] = Pt(cx - 100, pipY),
                  ![14] = Pt(cx + 100, pipY),
                  ![18] = Pt(cx + 300, pipY),
                  ![8]  = Pt(cx - 300, tipY(ie)),
                  ![12] = Pt(cx - 100, tipY(me)),
                  ![16] = Pt(cx + 100, tipY(re)),
                  ![20] = Pt(cx + 300, tipY(pe)),
                  ![4]  = Pt(cx - 300 + th[1], tipY(ie) + th[2])]

isExtended(f, tipId, pipId) == f[tipId].y < f[pipId].y

PinchThreshold == 600

\* Mutant: <= in place of <
pinchDistanceAtMost(f) ==
    LET dx == f[8].x - f[4].x
        dy == f[8].y - f[4].y
    IN  Hypot(dx, dy) <= PinchThreshold

pinchDistanceBelow(f) ==
    LET dx == f[8].x - f[4].x
        dy == f[8].y - f[4].y
    IN  Hypot(dx, dy) < PinchThreshold

\* Mutant: the fist rule is tested before the pinch rule
recognizeGestureFistFirst(f) ==
    LET indexExtended == isExtended(f, 8, 6)
        middleExtended == isExtended(f, 12, 10)
        ringExtended == isExtended(f, 16, 14)
        pinkyExtended == isExtended(f, 20, 18)
    IN  IF ~indexExtended /\ ~middleExtended /\ ~ringExtended /\ ~pinkyExtended THEN "FIST"
        ELSE IF pinchDistanceBelow(f) THEN "PINCH"
        ELSE IF indexExtended /\ middleExtended /\ ringExtended /\ pinkyExtended THEN "OPEN_PALM"
        ELSE IF indexExtended /\ middleExtended /\ ~ringExtended /\ ~pinkyExtended THEN "V_SIGN"
        ELSE IF indexExtended /\ ~middleExtended /\ ~ringExtended /\ ~pinkyExtended THEN "POINT"
        ELSE "NONE"

recognizeGesture(f) ==
    LET indexExtended == isExtended(f, 8, 6)
        middleExtended == isExtended(f, 12, 10)
        ringExtended == isExtended(f, 16, 14)
        pinkyExtended == isExtended(f, 20, 18)
    IN  IF pinchDistanceBelow(f) THEN "PINCH"
        ELSE IF ~indexExtended /\ ~middleExtended /\ ~ringExtended /\ ~pinkyExtended THEN "FIST"
        ELSE IF indexExtended /\ middleExtended /\ ringExtended /\ pinkyExtended THEN "OPEN_PALM"
        ELSE IF indexExtended /\ middleExtended /\ ~ringExtended /\ ~pinkyExtended THEN "V_SIGN"
        ELSE IF indexExtended /\ ~middleExtended /\ ~ringExtended /\ ~pinkyExtended THEN "POINT"
        ELSE "NONE"

getPalmCenter(f) ==
    [x |-> (f[0].x + f[9].x) \div 2, y |-> (f[0].y + f[9].y) \div 2]

getHandSize(f) ==
    LET palmDiagonal == Hypot(f[0].x - f[12].x, f[0].y - f[12].y)
        palmWidth == Hypot(f[4].x - f[20].x, f[4].y - f[20].y)
        palmHeight == Hypot(f[0].x - f[9].x, f[0].y - f[9].y)
    IN  (palmDiagonal + palmWidth + palmHeight) \div 3

-----------------------------------------------------------------------------
(* Configuration: CONFIG.camera of each module, rotation clamp, zoom sensitivity *)

InitialZ(e) == IF e = "tree" THEN 6 * Unit ELSE 15 * Unit
MinZ(e) == IF e = "tree" THEN 3 * Unit ELSE 6 * Unit
MaxZ(e) == IF e = "tree" THEN 10 * Unit ELSE 30 * Unit
RotXBound(e) == IF e = "tree" THEN 5000 * AngleScale ELSE 8000 * AngleScale
ZoomSensitivity(e) == IF e = "tree" THEN 3 ELSE 4
AutoRotateStep(e) == IF e = "tree" THEN 30 * AngleScale ELSE 5 * AngleScale

Photos == {"photoA", "photoB"}

\* camera.position.z is a double: NaN once a 0/0 has reached it.  NaN is
\* represented by a number that no camera arithmetic of the model produces.
NaN == -(Unit * Unit)
IsNaN(z) == z = NaN

\* Math.max(lo, Math.min(hi, z)): NaN stays NaN
ClampZ(e, z) == IF IsNaN(z) THEN NaN ELSE Clamp(MinZ(e), MaxZ(e), z)

AddZ(z, d) == IF IsNaN(z) THEN NaN ELSE z + d

\* CONFIG.physics and the speed caps of updatePhotoPhysics and updateGiftPhysics
Gravity == -3
MaxSpeed == 150
PhotoMaxSpeed == 800
GiftMaxSpeed == 600

\* One tree particle, the photos and one gift box, as createChristmasTree,
\* createSphereTargets, createPhotoWall and createGiftBoxes may draw them: the
\* target in the tree and in the sphere, the initial position and velocity,
\* and the amplitudes of the turbulence
ParticleTarget == <<5000, 10000, 0>>
ParticleSphereTarget == <<0, 18000, 0>>
ParticleStart == [pos |-> <<25000, -10000, 0>>, vel |-> <<20, -20, 10>>]
ParticleAmplitude == <<40, 20, 40>>

PhotoTarget == <<8000, 5000, 0>>
PhotoStart == [pos |-> <<20000, 10000, 0>>, vel |-> <<-50, 20, 0>>]
PhotoAmplitude == <<70, 40, 70>>

GiftTarget == <<-6000, -15000, 0>>
GiftSphereTarget == <<-10000, -10000, 0>>
GiftStart == [pos |-> <<-20000, -5000, 0>>, vel |-> <<40, 0, -40>>]
GiftAmplitude == <<40, 30, 40>>

\* createGiftBoxes: giftCount
GiftCount == 20

\* No module is loaded besides the selected one
NotLoaded == << >>

\* The two modules, and the gift boxes one call of initThreeScene creates
Effects == {"tree", "starry"}
GiftsCreated(e) == IF e = "tree" THEN GiftCount ELSE 0

\* createTreeStar: the star sits 0.3 above the top of the tree (height 4), at rest
TreeStarStart == [pos |-> <<0, 23000, 0>>, vel |-> <<0, 0, 0>>]

-----------------------------------------------------------------------------
(* The program state the handlers read and write, as one record *)

State ==
    [ effect |-> effect, lastGesture |-> lastGesture, gestureStartTime |-> gestureStartTime,
      lastHandPos |-> lastHandPos, smoothedPos |-> smoothedPos,
      isGestureActive |-> isGestureActive, autoRotate |-> autoRotate,
      gestureVelocity |-> gestureVelocity, isFistShape |-> isFistShape,
      isExploded |-> isExploded, isScattered |-> isScattered,
      lastHandSize |-> lastHandSize, smoothedHandSize |-> smoothedHandSize,
      handSizeBaseline |-> handSizeBaseline, handSizeCalibrated |-> handSizeCalibrated,
      rotation |-> rotation, cameraZ |-> cameraZ, expandedPhoto |-> expandedPhoto,
      selectedPhoto |-> selectedPhoto, inScene |-> inScene, closeAnims |-> closeAnims,
      starPos |-> starPos, starVel |-> starVel,
      particle |-> particle, photoBody |-> photoBody, gift |-> gift, treeStar |-> treeStar,
      giftBoxes |-> giftBoxes, giftTargets |-> giftTargets,
      giftSphereTargets |-> giftSphereTargets ]

Assign(s) ==
    /\ effect' = s.effect
    /\ lastGesture' = s.lastGesture
    /\ gestureStartTime' = s.gestureStartTime
    /\ lastHandPos' = s.lastHandPos
    /\ smoothedPos' = s.smoothedPos
    /\ isGestureActive' = s.isGestureActive
    /\ autoRotate' = s.autoRotate
    /\ gestureVelocity' = s.gestureVelocity
    /\ isFistShape' = s.isFistShape
    /\ isExploded' = s.isExploded
    /\ isScattered' = s.isScattered
    /\ lastHandSize' = s.lastHandSize
    /\ smoothedHandSize' = s.smoothedHandSize
    /\ handSizeBaseline' = s.handSizeBaseline
    /\ handSizeCalibrated' = s.handSizeCalibrated
    /\ rotation' = s.rotation
    /\ cameraZ' = s.cameraZ
    /\ expandedPhoto' = s.expandedPhoto
    /\ selectedPhoto' = s.selectedPhoto
    /\ inScene' = s.inScene
    /\ closeAnims' = s.closeAnims
    /\ starPos' = s.starPos
    /\ starVel' = s.starVel
    /\ particle' = s.particle
    /\ photoBody' = s.photoBody
    /\ gift' = s.gift
    /\ treeStar' = s.treeStar
    /\ giftBoxes' = s.giftBoxes
    /\ giftTargets' = s.giftTargets
    /\ giftSphereTargets' = s.giftSphereTargets

-----------------------------------------------------------------------------
(* Explode / gather, scatter / gather *)

\* v: the random velocities drawn for the particle, the photos and the gift box
explodeParticles(s, v) ==
    [s EXCEPT !.isExploded = TRUE,
              !.autoRotate = FALSE,
              !.particle.vel = v.particle,
              !.photoBody = [p \in Photos |-> [@[p] EXCEPT !.vel = v.photo]],
              !.gift.vel = v.gift,
              !.treeStar.vel = v.star]

gatherParticles(s) == [s EXCEPT !.isExploded = FALSE, !.treeStar = TreeStarStart]

\* v: the random velocity drawn for the star
scatterStars(s, v) == [s EXCEPT !.isScattered = TRUE, !.autoRotate = FALSE, !.starVel = v]

gatherStars(s) == [s EXCEPT !.isScattered = FALSE, !.starVel = <<0, 0, 0>>]

-----------------------------------------------------------------------------
(* Photo wall (tree) *)

\* hit: the photo the raycaster intersects first, or Null.
\* What checkPhotoHover returns
hoverResult(s, hit) ==
    IF hit # Null /\ s.expandedPhoto = Null THEN hit ELSE Null

\* What checkPhotoHover does
checkPhotoHover(s, hit) == [s EXCEPT !.selectedPhoto = hoverResult(s, hit)]

expandPhoto(s, photo) ==
    IF s.expandedPhoto # Null THEN s
    ELSE [s EXCEPT !.expandedPhoto = photo,
                   !.autoRotate = FALSE,
                   !.inScene = @ \cup {photo}]

\* Starts a new animateClose chain for the expanded photo; the chain's first call
\* runs at progress 0 and moves only the photo.
closeExpandedPhoto(s) ==
    IF s.expandedPhoto = Null THEN s
    ELSE [s EXCEPT !.closeAnims[s.expandedPhoto] = @ + 1]

\* Mutant: the chain stops before its last call (as if it were cancelled)
animateCloseCancelled(s, photo) == [s EXCEPT !.closeAnims[photo] = @ - 1]

\* The last call of an animateClose chain started for photo (progress >= 1)
animateCloseEnd(s, photo) ==
    [s EXCEPT !.inScene = @ \ {photo},
              !.photoBody[photo].pos = PhotoTarget,
              !.expandedPhoto = Null,
              !.autoRotate = TRUE,
              !.closeAnims[photo] = @ - 1]

handlePhotoInteraction(s, hit) ==
    IF s.expandedPhoto # Null THEN closeExpandedPhoto(s)
    ELSE IF hit # Null THEN expandPhoto(s, hit)
    ELSE s

-----------------------------------------------------------------------------
(* Signal smoothing, calibration and distance zoom *)

\* smoothed * 0.7 + raw * 0.3
smoothPointer(smoothed, raw) == (smoothed * 7 + raw * 3) \div 10

\* smoothed * 0.8 + current * 0.2
smoothHandSize(smoothed, current) == (smoothed * 8 + current * 2) \div 10

\* Mutant: the calibrating frame does not overwrite the filtered value
calibrateFiltered(s, currentHandSize) ==
    LET s1 == [s EXCEPT !.smoothedHandSize = smoothHandSize(@, currentHandSize)]
    IN  IF ~s1.handSizeCalibrated
        THEN [s1 EXCEPT !.handSizeBaseline = currentHandSize,
                        !.handSizeCalibrated = TRUE]
        ELSE s1

\* handleGestures, hand-size part: the filter, then the one-time calibration
calibrate(s, currentHandSize) ==
    LET s1 == [s EXCEPT !.smoothedHandSize = smoothHandSize(@, currentHandSize)]
    IN  IF ~s1.handSizeCalibrated
        THEN [s1 EXCEPT !.handSizeBaseline = currentHandSize,
                        !.smoothedHandSize = currentHandSize,
                        !.handSizeCalibrated = TRUE]
        ELSE s1

\* smoothedHandSize / handSizeBaseline is Infinity for x/0 (x > 0), which the
\* clamp turns into minZ, and NaN for 0/0, which the clamp lets through.
applyHandDistanceZoom(s) ==
    IF ~s.handSizeCalibrated THEN s
    ELSE IF s.handSizeBaseline = 0
         THEN [s EXCEPT !.cameraZ = IF s.smoothedHandSize = 0 \/ IsNaN(@)
                                    THEN NaN ELSE MinZ(s.effect)]
    ELSE LET sizeRatio == (s.smoothedHandSize * Unit) \div s.handSizeBaseline
             targetZ == InitialZ(s.effect) - (sizeRatio - Unit) * ZoomSensitivity(s.effect)
             currentZ == s.cameraZ
             newZ == AddZ(currentZ, Scale(targetZ - currentZ, 1, 10))
         IN  [s EXCEPT !.cameraZ = ClampZ(s.effect, newZ)]

-----------------------------------------------------------------------------
(* processContinuousGesture *)

\* Mutant: a rotation delta of zero is not recorded as the velocity
dragRotateKeepsVelocity(s, deltaX, deltaY) ==
    LET rotDeltaY == deltaX * 5 * AngleScale
        rotDeltaX == deltaY * 3 * AngleScale
        b == RotXBound(s.effect)
    IN  [s EXCEPT !.rotation = [x |-> Clamp(-b, b, @.x + rotDeltaX), y |-> @.y + rotDeltaY],
                  !.gestureVelocity = [@ EXCEPT !.rotX = IF rotDeltaX = 0 THEN @ ELSE rotDeltaX,
                                                !.rotY = IF rotDeltaY = 0 THEN @ ELSE rotDeltaY]]

\* The rotation mapping shared by OPEN_PALM and FIST
dragRotate(s, deltaX, deltaY) ==
    LET rotDeltaY == deltaX * 5 * AngleScale
        rotDeltaX == deltaY * 3 * AngleScale
        b == RotXBound(s.effect)
    IN  [s EXCEPT !.rotation = [x |-> Clamp(-b, b, @.x + rotDeltaX), y |-> @.y + rotDeltaY],
                  !.gestureVelocity = [@ EXCEPT !.rotX = rotDeltaX, !.rotY = rotDeltaY]]

pinchZoom(s, deltaY) ==
    LET zoomDelta == -deltaY * 10
    IN  [s EXCEPT !.cameraZ = ClampZ(s.effect, AddZ(@, zoomDelta)),
                  !.gestureVelocity = [@ EXCEPT !.zoom = zoomDelta],
                  !.autoRotate = FALSE,
                  !.isGestureActive = TRUE]

\* Tree, gesture OPEN_PALM
treeOpenPalm(s, deltaX, deltaY) ==
    IF s.expandedPhoto # Null THEN closeExpandedPhoto(s)
    ELSE dragRotate([s EXCEPT !.isFistShape = FALSE,
                              !.autoRotate = FALSE,
                              !.isGestureActive = TRUE], deltaX, deltaY)

\* Tree, gesture POINT.  t: performance.now()
treePoint(s, hit, t) ==
    LET s1 == checkPhotoHover(s, hit)
        hoveredPhoto == hoverResult(s, hit)
    IN  IF hoveredPhoto # Null /\ s1.expandedPhoto = Null
        THEN IF s1.selectedPhoto = hoveredPhoto
             THEN IF s1.gestureStartTime = 0
                  THEN [s1 EXCEPT !.gestureStartTime = t]
                  ELSE IF t - s1.gestureStartTime > 500
                       THEN [expandPhoto(s1, hoveredPhoto) EXCEPT !.gestureStartTime = 0]
                       ELSE s1
             ELSE [s1 EXCEPT !.gestureStartTime = t]
        ELSE s1

\* Tree, gesture FIST
treeFist(s, deltaX, deltaY) ==
    IF s.expandedPhoto # Null
    THEN IF s.lastGesture # "FIST" THEN closeExpandedPhoto(s) ELSE s
    ELSE IF s.isExploded
    THEN IF s.lastGesture # "FIST" THEN gatherParticles(s) ELSE s
    ELSE dragRotate(IF ~s.isFistShape
                    THEN [s EXCEPT !.isFistShape = TRUE, !.autoRotate = FALSE]
                    ELSE s, deltaX, deltaY)

\* Tree, gesture V_SIGN on entry.  v: the random explosion velocities
treeVSign(s, v) ==
    IF s.expandedPhoto # Null THEN s
    ELSE IF s.isExploded THEN gatherParticles(s)
    ELSE explodeParticles(s, v)

\* Tree, the final else branch: NONE, or V_SIGN while held
treeOther(s, gesture) ==
    LET s1 == [s EXCEPT !.gestureStartTime = 0, !.isGestureActive = FALSE]
    IN  IF gesture = "NONE"
        THEN [s1 EXCEPT !.isFistShape = FALSE,
                        !.autoRotate = IF s1.expandedPhoto = Null THEN TRUE ELSE @]
        ELSE s1

\* script.js processContinuousGesture.  s.smoothedPos is currentPos.
treeProcessContinuousGesture(s, gesture, hit, v, t) ==
    LET deltaX == s.smoothedPos.x - s.lastHandPos.x
        deltaY == s.smoothedPos.y - s.lastHandPos.y
        s0 == IF gesture # "POINT" THEN checkPhotoHover(s, hit) ELSE s
    IN  IF gesture = "OPEN_PALM" THEN treeOpenPalm(s0, deltaX, deltaY)
        ELSE IF gesture = "POINT" THEN treePoint(s0, hit, t)
        ELSE IF gesture = "PINCH"
             THEN IF s0.expandedPhoto # Null THEN s0 ELSE pinchZoom(s0, deltaY)
        ELSE IF gesture = "FIST" THEN treeFist(s0, deltaX, deltaY)
        ELSE IF gesture = "V_SIGN" /\ s0.lastGesture # "V_SIGN" THEN treeVSign(s0, v)
        ELSE treeOther(s0, gesture)

\* Starry, gesture FIST
starryFist(s, deltaX, deltaY) ==
    dragRotate(IF s.isScattered THEN gatherStars(s) ELSE s, deltaX, deltaY)

\* Starry, gesture V_SIGN on entry.  v: the random scatter velocity
starryVSign(s, v) ==
    IF s.isScattered THEN gatherStars(s) ELSE scatterStars(s, v)

\* part_000 processContinuousGesture
starryProcessContinuousGesture(s, gesture, v) ==
    LET deltaX == s.smoothedPos.x - s.lastHandPos.x
        deltaY == s.smoothedPos.y - s.lastHandPos.y
    IN  IF gesture = "OPEN_PALM"
        THEN dragRotate([s EXCEPT !.autoRotate = FALSE, !.isGestureActive = TRUE], deltaX, deltaY)
        ELSE IF gesture = "POINT" THEN s
        ELSE IF gesture = "PINCH" THEN pinchZoom(s, deltaY)
        ELSE IF gesture = "FIST" THEN starryFist(s, deltaX, deltaY)
        ELSE IF gesture = "V_SIGN" /\ s.lastGesture # "V_SIGN" THEN starryVSign(s, v)
        ELSE [s EXCEPT !.gestureStartTime = 0,
                       !.isGestureActive = FALSE,
                       !.autoRotate = IF gesture = "NONE" THEN TRUE ELSE @]

-----------------------------------------------------------------------------
(* handleGestures and onResults *)

\* Mutant: the distance zoom is applied under OPEN_PALM whether or not a photo is expanded
handleGesturesZoomAlways(s, f, hit, v, t) ==
    LET palmCenter == getPalmCenter(f)
        rawX == Unit - palmCenter.x
        rawY == palmCenter.y
        s1 == [s EXCEPT !.smoothedPos = [x |-> smoothPointer(@.x, rawX),
                                         y |-> smoothPointer(@.y, rawY)]]
        currentHandSize == getHandSize(f)
        s2 == calibrate(s1, currentHandSize)
        gesture == recognizeGesture(f)
        s3 == IF gesture = "OPEN_PALM" THEN applyHandDistanceZoom(s2) ELSE s2
        s4 == IF s3.effect = "tree"
              THEN treeProcessContinuousGesture(s3, gesture, hit, v, t)
              ELSE starryProcessContinuousGesture(s3, gesture, v)
    IN  [s4 EXCEPT !.lastHandPos = s4.smoothedPos,
                   !.lastHandSize = currentHandSize,
                   !.lastGesture = gesture]

\* f: the first hand's landmarks; hit: what the raycaster finds under the cursor;
\* v: the random velocities that scatterStars (a star's) or explodeParticles
\* (a particle's, the photos', a gift box's) draws; t: performance.now()
handleGestures(s, f, hit, v, t) ==
    LET palmCenter == getPalmCenter(f)
        rawX == Unit - palmCenter.x
        rawY == palmCenter.y
        s1 == [s EXCEPT !.smoothedPos = [x |-> smoothPointer(@.x, rawX),
                                         y |-> smoothPointer(@.y, rawY)]]
        currentHandSize == getHandSize(f)
        s2 == calibrate(s1, currentHandSize)
        gesture == recognizeGesture(f)
        s3 == IF gesture = "OPEN_PALM" /\ (s2.effect = "starry" \/ s2.expandedPhoto = Null)
              THEN applyHandDistanceZoom(s2) ELSE s2
        s4 == IF s3.effect = "tree"
              THEN treeProcessContinuousGesture(s3, gesture, hit, v, t)
              ELSE starryProcessContinuousGesture(s3, gesture, v)
    IN  [s4 EXCEPT !.lastHandPos = s4.smoothedPos,
                   !.lastHandSize = currentHandSize,
                   !.lastGesture = gesture]

\* The landmark indices whose coordinates getPalmCenter and getHandSize read
palmCenterReads == {0, 9}
handSizeReads == {0, 4, 9, 12, 20}

\* handleGestures on a frame f that lacks a landmark it reads: landmarks[i] is
\* undefined there, and reading its x throws a TypeError that ends the callback.
\* getPalmCenter throws before anything is written; getHandSize throws after
\* the pointer filter has been updated.  A frame with fewer than 21 points
\* lacks landmark 20, which getHandSize reads.
handleGesturesThrows(f) == ~(palmCenterReads \cup handSizeReads \subseteq DOMAIN f)

handleGesturesAborted(s, f) ==
    IF ~(palmCenterReads \subseteq DOMAIN f) THEN s
    ELSE LET palmCenter == getPalmCenter(f)
             rawX == Unit - palmCenter.x
             rawY == palmCenter.y
         IN  [s EXCEPT !.smoothedPos = [x |-> smoothPointer(@.x, rawX),
                                        y |-> smoothPointer(@.y, rawY)]]

\* Mutant: hand loss re-arms the calibration
noHandRecalibrates(s) ==
    [s EXCEPT !.isGestureActive = FALSE, !.autoRotate = TRUE, !.handSizeCalibrated = FALSE]

\* Mutant: auto-rotate is not switched back on
noHandKeepsAutoRotate(s) == [s EXCEPT !.isGestureActive = FALSE]

\* results.multiHandLandmarks is empty or missing
noHand(s) == [s EXCEPT !.isGestureActive = FALSE, !.autoRotate = TRUE]

-----------------------------------------------------------------------------
(* Animation frame *)

\* |v| > 0.0001 (an angle) and |v| > 0.001
RotCutoff == 100
ZoomCutoff == 10

\* Mutant: the X rotation is not clamped after the inertia step
inertiaRotationUnclamped(s) ==
    IF Abs(s.gestureVelocity.rotX) > RotCutoff \/ Abs(s.gestureVelocity.rotY) > RotCutoff
    THEN [s EXCEPT !.rotation = [x |-> @.x + s.gestureVelocity.rotX,
                                 y |-> @.y + s.gestureVelocity.rotY],
                   !.gestureVelocity = [@ EXCEPT !.rotX = Scale(@, 95, 100),
                                                 !.rotY = Scale(@, 95, 100)]]
    ELSE s

\* Mutant: a rotation component is integrated only while both exceed the cutoff
inertiaRotationBothAbove(s) ==
    IF Abs(s.gestureVelocity.rotX) > RotCutoff /\ Abs(s.gestureVelocity.rotY) > RotCutoff
    THEN LET b == RotXBound(s.effect)
         IN  [s EXCEPT !.rotation = [x |-> Clamp(-b, b, @.x + s.gestureVelocity.rotX),
                                     y |-> @.y + s.gestureVelocity.rotY],
                       !.gestureVelocity = [@ EXCEPT !.rotX = Scale(@, 95, 100),
                                                     !.rotY = Scale(@, 95, 100)]]
    ELSE s

inertiaRotation(s) ==
    IF Abs(s.gestureVelocity.rotX) > RotCutoff \/ Abs(s.gestureVelocity.rotY) > RotCutoff
    THEN LET b == RotXBound(s.effect)
         IN  [s EXCEPT !.rotation = [x |-> Clamp(-b, b, @.x + s.gestureVelocity.rotX),
                                     y |-> @.y + s.gestureVelocity.rotY],
                       !.gestureVelocity = [@ EXCEPT !.rotX = Scale(@, 95, 100),
                                                     !.rotY = Scale(@, 95, 100)]]
    ELSE s

inertiaZoom(s) ==
    IF Abs(s.gestureVelocity.zoom) > ZoomCutoff
    THEN [s EXCEPT !.cameraZ = ClampZ(s.effect, AddZ(@, s.gestureVelocity.zoom)),
                   !.gestureVelocity = [@ EXCEPT !.zoom = Scale(@, 92, 100)]]
    ELSE s

\* Mutant: the integrator does not test isGestureActive
applyGestureInertiaWhileActive(s) ==
    IF s.effect = "tree"
    THEN IF s.expandedPhoto = Null /\ ~s.isExploded
         THEN inertiaZoom(inertiaRotation(s)) ELSE s
    ELSE inertiaZoom(inertiaRotation(s))

applyGestureInertia(s) ==
    IF s.effect = "tree"
    THEN IF ~s.isGestureActive /\ s.expandedPhoto = Null /\ ~s.isExploded
         THEN inertiaZoom(inertiaRotation(s)) ELSE s
    ELSE IF ~s.isGestureActive THEN inertiaZoom(inertiaRotation(s)) ELSE s

StarTarget == <<10000, 5000, 0>>
StarAmplitude == 30

\* The three sinusoids of a body's turbulence at the frame's time, times the
\* amplitudes and the multiplier num / den.  w = <<sine, cosine>>
turbulence(amplitude, w, num, den) ==
    << Scale(w[1] * amplitude[1], num, den),
       Scale(w[2] * amplitude[2], num, den),
       Scale(w[1] * amplitude[3], num, den) >>

\* Mutant: the speed is not limited
capSpeedNone(vel, cap) == vel

\* if (speed > cap) vel.multiplyScalar(cap / speed)
capSpeed(vel, cap) ==
    IF LengthSq(vel) > cap * cap THEN VScale(vel, cap, Length(vel)) ELSE vel

\* Mutant: the velocity is not damped
moveBodyUndamped(body, target, fnum, fden, turb, g, exploded, cap) ==
    LET v1 == IF ~exploded
              THEN VAdd(VAdd(body.vel, VScale(VSub(target, body.pos), fnum, fden)), turb)
              ELSE VAdd(body.vel, <<0, g, 0>>)
        v3 == capSpeed(v1, cap)
    IN  [pos |-> VAdd(body.pos, v3), vel |-> v3]

\* The physics step of one body: attraction to the target (force fnum / fden)
\* and turbulence, or gravity g when exploded; damping 0.95; the speed cap;
\* the move
moveBody(body, target, fnum, fden, turb, g, exploded, cap) ==
    LET v1 == IF ~exploded
              THEN VAdd(VAdd(body.vel, VScale(VSub(target, body.pos), fnum, fden)), turb)
              ELSE VAdd(body.vel, <<0, g, 0>>)
        v2 == VScale(v1, 95, 100)
        v3 == capSpeed(v2, cap)
    IN  [pos |-> VAdd(body.pos, v3), vel |-> v3]

\* returnForce 0.008, times 2.5 in the sphere; turbulence times 0.3 in the sphere
updateParticlePhysics(s, w) ==
    [s EXCEPT !.particle =
        IF s.isFistShape
        THEN moveBody(@, ParticleSphereTarget, 20, 1000,
                      turbulence(ParticleAmplitude, w, 3, 10), Gravity, s.isExploded, MaxSpeed)
        ELSE moveBody(@, ParticleTarget, 8, 1000,
                      turbulence(ParticleAmplitude, w, 1, 1), Gravity, s.isExploded, MaxSpeed)]

\* returnForce * 0.8, gravity * 1.5; the expanded photo is skipped
updatePhotoPhysics(s, w) ==
    [s EXCEPT !.photoBody =
        [p \in Photos |->
            IF p = s.expandedPhoto THEN @[p]
            ELSE moveBody(@[p], PhotoTarget, 64, 10000,
                          turbulence(PhotoAmplitude, w, 1, 1), Scale(Gravity, 15, 10),
                          s.isExploded, PhotoMaxSpeed)]]

\* The forEach over giftBoxes reads currentTargets[index] for every box: a box
\* past the end of the selected target array has no target
giftTargetMissing(s) ==
    s.giftBoxes > (IF s.isFistShape THEN s.giftSphereTargets ELSE s.giftTargets)

\* In formation mode the missing target is dereferenced (target.x): a TypeError
\* that ends the animate call; in exploded mode the target is read and not used
updateGiftPhysicsThrows(s) == giftTargetMissing(s) /\ ~s.isExploded

\* returnForce * 0.7, times 2.5 in the sphere; gravity * 2
updateGiftPhysics(s, w) ==
    [s EXCEPT !.gift =
        IF s.isFistShape
        THEN moveBody(@, GiftSphereTarget, 14, 1000,
                      turbulence(GiftAmplitude, w, 3, 10), Gravity * 2, s.isExploded, GiftMaxSpeed)
        ELSE moveBody(@, GiftTarget, 56, 10000,
                      turbulence(GiftAmplitude, w, 1, 1), Gravity * 2, s.isExploded, GiftMaxSpeed)]

\* w = <<sine, cosine>>: the values, in {-1, 0, 1}, that the star's two
\* sinusoids take at the frame's time
updateConstellationStars(s, w) ==
    IF ~s.isScattered
    THEN [s EXCEPT !.starPos = <<StarTarget[1] + w[1] * StarAmplitude,
                                 StarTarget[2] + w[2] * StarAmplitude,
                                 @[3]>>]
    ELSE s

autoRotation(s) ==
    IF s.effect = "tree"
    THEN IF s.autoRotate /\ ~s.isExploded
         THEN [s EXCEPT !.rotation.y = @ + AutoRotateStep(s.effect)] ELSE s
    ELSE IF s.autoRotate
         THEN [s EXCEPT !.rotation.y = @ + AutoRotateStep(s.effect)] ELSE s

\* The star on the tree top follows the explosion: gravity and the move, on
\* the y axis only
updateTreeStar(s) ==
    IF s.isExploded
    THEN LET vy == s.treeStar.vel[2] + Gravity
         IN  [s EXCEPT !.treeStar = [pos |-> <<@.pos[1], @.pos[2] + vy, @.pos[3]>>,
                                     vel |-> <<@.vel[1], vy, @.vel[3]>>]]
    ELSE s

\* What the renderer draws
Scene(s) ==
    [ rotation |-> s.rotation, cameraZ |-> s.cameraZ, particle |-> s.particle.pos,
      photos |-> [p \in Photos |-> s.photoBody[p].pos], gift |-> s.gift.pos,
      treeStar |-> s.treeStar.pos, star |-> s.starPos ]

\* Mutant: the scene is rendered before the particle sets are updated
FrameStepsRenderEarly(e) ==
    IF e = "tree"
    THEN << "time", "applyGestureInertia", "render", "updateParticlePhysics",
            "updatePhotoPhysics", "updateGiftPhysics", "treeStar", "autoRotation" >>
    ELSE << "time", "applyGestureInertia", "render", "updateConstellationStars",
            "updateConstellationLines", "updateShootingStars", "autoRotation" >>

\* The statements of animate, in the order of the source
FrameSteps(e) ==
    IF e = "tree"
    THEN << "time", "applyGestureInertia", "updateParticlePhysics", "updatePhotoPhysics",
            "updateGiftPhysics", "treeStar", "autoRotation", "render" >>
    ELSE << "time", "applyGestureInertia", "updateConstellationStars",
            "updateConstellationLines", "updateShootingStars", "autoRotation", "render" >>

\* One statement of animate.  a = [s |-> the state, rendered |-> the scenes
\* rendered so far].  Reading the clock, the breathing of the tree-top star,
\* the constellation lines and the shooting stars change nothing of the state.
frameStep(a, w, step) ==
    CASE step = "applyGestureInertia" -> [a EXCEPT !.s = applyGestureInertia(@)]
      [] step = "updateParticlePhysics" -> [a EXCEPT !.s = updateParticlePhysics(@, w)]
      [] step = "updatePhotoPhysics" -> [a EXCEPT !.s = updatePhotoPhysics(@, w)]
      [] step = "updateGiftPhysics" -> [a EXCEPT !.s = updateGiftPhysics(@, w),
                                                 !.thrown = updateGiftPhysicsThrows(a.s)]
      [] step = "treeStar" -> [a EXCEPT !.s = updateTreeStar(@)]
      [] step = "updateConstellationStars" -> [a EXCEPT !.s = updateConstellationStars(@, w)]
      [] step = "autoRotation" -> [a EXCEPT !.s = autoRotation(@)]
      [] step = "render" -> [a EXCEPT !.rendered = Append(@, Scene(a.s))]
      [] OTHER -> a

RECURSIVE runFrame(_, _, _, _)
runFrame(a, w, steps, i) ==
    IF i > Len(steps) \/ a.thrown THEN a
    ELSE runFrame([frameStep(a, w, steps[i]) EXCEPT !.calls = Append(@, steps[i])],
                  w, steps, i + 1)

\* animate: the final state and the scenes rendered
animateFrame(s, w) ==
    runFrame([s |-> s, rendered |-> << >>, calls |-> << >>, thrown |-> FALSE],
             w, FrameSteps(s.effect), 1)

animate(s, w) == animateFrame(s, w).s

\* The top-level declarations of a module, as its import leaves them.  The
\* bodies that the first initThreeScene creates are at their places already;
\* the gift arrays are empty
ModuleStart(e) ==
    [ effect |-> e, lastGesture |-> "NONE", gestureStartTime |-> 0,
      lastHandPos |-> Pt(5000, 5000), smoothedPos |-> Pt(5000, 5000),
      isGestureActive |-> FALSE, autoRotate |-> TRUE,
      gestureVelocity |-> [rotX |-> 0, rotY |-> 0, zoom |-> 0], isFistShape |-> FALSE,
      isExploded |-> FALSE, isScattered |-> FALSE,
      lastHandSize |-> 0, smoothedHandSize |-> 0,
      handSizeBaseline |-> 0, handSizeCalibrated |-> FALSE,
      rotation |-> Pt(0, 0), cameraZ |-> InitialZ(e), expandedPhoto |-> Null,
      selectedPhoto |-> Null, inScene |-> {}, closeAnims |-> [p \in Photos |-> 0],
      starPos |-> StarTarget, starVel |-> <<0, 0, 0>>,
      particle |-> ParticleStart, photoBody |-> [p \in Photos |-> PhotoStart],
      gift |-> GiftStart, treeStar |-> TreeStarStart,
      giftBoxes |-> 0, giftTargets |-> 0, giftSphereTargets |-> 0 ]

\* initThreeScene up to its last statement, the call of animate: a new camera
\* and a new group (at rest, not rotated); the tree's particles and the star on
\* its top are created anew; createGiftBoxes empties giftTargets and
\* giftSphereTargets and fills them, and pushes its boxes onto giftBoxes, which
\* it does not empty.  The gesture state, the photo and gift objects at the
\* front of their arrays and the constellation stars stay as they are.
initThreeScene(s) ==
    [s EXCEPT !.rotation = Pt(0, 0),
              !.cameraZ = InitialZ(s.effect),
              !.particle = IF s.effect = "tree" THEN ParticleStart ELSE @,
              !.treeStar = IF s.effect = "tree" THEN TreeStarStart ELSE @,
              !.giftTargets = GiftsCreated(s.effect),
              !.giftSphereTargets = GiftsCreated(s.effect),
              !.giftBoxes = @ + GiftsCreated(s.effect)]

-----------------------------------------------------------------------------
(* Inputs *)

ThumbFar == <<-2000, 1500>>
ThumbNear == <<200, 100>>

Pose(g, cx, cy, span) ==
    CASE g = "FIST"      -> MakeFrame(cx, cy, span, ThumbFar, FALSE, FALSE, FALSE, FALSE)
      [] g = "OPEN_PALM" -> MakeFrame(cx, cy, span, ThumbFar, TRUE, TRUE, TRUE, TRUE)
      [] g = "V_SIGN"    -> MakeFrame(cx, cy, span, ThumbFar, TRUE, TRUE, FALSE, FALSE)
      [] g = "POINT"     -> MakeFrame(cx, cy, span, ThumbFar, TRUE, FALSE, FALSE, FALSE)
      [] g = "PINCH"     -> MakeFrame(cx, cy, span, ThumbNear, TRUE, TRUE, TRUE, TRUE)
      [] g = "NONE"      -> MakeFrame(cx, cy, span, ThumbFar, FALSE, TRUE, TRUE, FALSE)

In(f, hit) == [lm |-> f, hit |-> hit]

\* The hand in front of the camera: every pose at the middle of the image, where
\* no photo is under the cursor; pointing at a photo; and two poses of a hand
\* that is nearer and off the middle.
PoseInputs ==
    { In(Pose(g, 5000, 5000, 1000), Null) : g \in Gestures }
    \cup { In(Pose("POINT", 5000, 5000, 1000), "photoA") }
    \cup { In(Pose(g, 4000, 6000, 1200), Null) : g \in {"OPEN_PALM", "PINCH"} }

\* A hand that only makes a fist or the V sign
FistInputs == { In(Pose(g, 5000, 5000, 1000), Null) : g \in {"FIST", "V_SIGN"} }

\* A hand that makes the V sign
VSignInputs == { In(Pose("V_SIGN", 5000, 5000, 1000), Null) }

\* A hand that shows the open palm or makes a fist, either of which closes an
\* expanded photo
\* The V sign and the open palm, at the centre of the image
SwitchInputs == { In(Pose(g, 5000, 5000, 1000), Null) : g \in {"V_SIGN", "OPEN_PALM"} }

CloseInputs == { In(Pose(g, 5000, 5000, 1000), Null) : g \in {"OPEN_PALM", "FIST"} }

\* A hand that drags and lets go: an open palm that moves sideways and barely
\* down, an open palm and a fist that move far down, and a pinch that moves
\* far down or barely down
DragInputs ==
    { In(Pose("OPEN_PALM", 4000, 5004, 1000), Null),
      In(Pose("OPEN_PALM", 5000, 9000, 1000), Null),
      In(Pose("FIST", 5000, 9000, 1000), Null),
      In(Pose("PINCH", 5000, 9000, 1000), Null),
      In(Pose("PINCH", 5000, 5007, 1000), Null) }

\* An open palm that moves sideways, that rests where the pointer filter has
\* arrived after that move, and that rests at the middle of the image; and a
\* hand that makes no gesture
HoldInputs ==
    { In(Pose("OPEN_PALM", 4000, 5004, 1000), Null),
      In(Pose("OPEN_PALM", 4700, 5001, 1000), Null),
      In(Pose("OPEN_PALM", 5000, 5000, 1000), Null),
      In(Pose("NONE", 5000, 5000, 1000), Null) }

\* Landmarks of hand size 0.  All 21 points at one place: the pinch distance
\* is 0, so the frame is classified PINCH.
PointFrame(cx, cy) == [i \in 0..20 |-> Pt(cx, cy)]

\* Wrist, middle MCP and middle tip at one place and thumb tip and pinky tip at
\* another, every finger tip above its PIP joint and the thumb 0.13 from the
\* index tip: hand size 0, classified OPEN_PALM.
FlatPalmFrame(cx, cy) ==
    [i \in 0..20 |->
        IF i \in {6, 10, 14, 18} THEN Pt(cx, cy + 500)
        ELSE IF i \in {4, 20} THEN Pt(cx + 1000, cy)
        ELSE IF i = 8 THEN Pt(cx - 300, cy)
        ELSE Pt(cx, cy)]

\* The first n landmarks of f
Truncate(f, n) == [i \in 0..(n - 1) |-> f[i]]

\* Detector results with fewer than 21 landmark points
ShortFrames ==
    { Truncate(Pose("OPEN_PALM", 5000, 9000, 1000), n) : n \in {5, 10, 20} }

\* A hand that comes nearer and moves, and landmarks of hand size 0
ZoomInputs ==
    { In(PointFrame(5000, 5000), Null),
      In(FlatPalmFrame(5000, 5000), Null),
      In(Pose("OPEN_PALM", 5000, 5000, 1000), Null),
      In(Pose("OPEN_PALM", 5000, 5000, 1500), Null),
      In(Pose("PINCH", 5000, 9000, 1000), Null) }

ScatterVelocities == { <<300, -200, 100>> }

\* What explodeParticles may draw: the largest velocities
ExplodeVelocities ==
    { [particle |-> <<750, 1500, -750>>, photo |-> <<500, 800, -500>>,
       gift |-> <<-600, 1300, 600>>, star |-> <<250, 1500, -250>>] }

RandomDraws(e) == IF e = "tree" THEN ExplodeVelocities ELSE ScatterVelocities

\* The turbulence of an animation frame of SpecInertia
CalmWaves == { <<0, 1>> }

Waves == { <<0, 1>>, <<1, 0>>, <<-1, -1>> }

\* Turbulence of amplitude 0: every turbulence term of the frame is 0
NoWaves == { <<0, 0>> }

\* Where createChristmasTree may put the particle whose target is
\* ParticleTarget, and the velocity it may give it: level with the target and
\* at rest, level with it and moving away from it, and below it and moving
ConvergeStarts ==
    { [pos |-> <<16000, 10000, 0>>, vel |-> <<0, 0, 0>>],
      [pos |-> <<16000, 10000, 0>>, vel |-> <<25, 25, 0>>],
      [pos |-> <<15000, 2000, 5000>>, vel |-> <<20, -20, 10>>] }

-----------------------------------------------------------------------------
(* Initial state: the module's top-level declarations, after initThreeScene *)

\* No detector result with a hand is the latest one
NoHold == [still |-> FALSE, overlay |-> Null, closed |-> FALSE]

InitProgram(e) ==
    /\ effect = e
    /\ lm = NoFrame
    /\ lastGesture = "NONE"
    /\ gestureStartTime = 0
    /\ lastHandPos = Pt(5000, 5000)
    /\ smoothedPos = Pt(5000, 5000)
    /\ isGestureActive = FALSE
    /\ autoRotate = TRUE
    /\ gestureVelocity = [rotX |-> 0, rotY |-> 0, zoom |-> 0]
    /\ isFistShape = FALSE
    /\ isExploded = FALSE
    /\ isScattered = FALSE
    /\ lastHandSize = 0
    /\ smoothedHandSize = 0
    /\ handSizeBaseline = 0
    /\ handSizeCalibrated = FALSE
    /\ rotation = Pt(0, 0)
    /\ cameraZ = InitialZ(e)
    /\ expandedPhoto = Null
    /\ selectedPhoto = Null
    /\ inScene = {}
    /\ closeAnims = [p \in Photos |-> 0]
    /\ starPos = StarTarget
    /\ starVel = <<0, 0, 0>>
    /\ particle = ParticleStart
    /\ photoBody = [p \in Photos |-> PhotoStart]
    /\ gift = GiftStart
    /\ treeStar = TreeStarStart
    /\ giftBoxes = GiftsCreated(e)
    /\ giftTargets = GiftsCreated(e)
    /\ giftSphereTargets = GiftsCreated(e)
    /\ frameLoops = [m \in Effects |-> IF m = e THEN 1 ELSE 0]
    /\ parked = NotLoaded
    /\ handsCallback = e
    /\ buttonsDisabled = FALSE
    /\ dwell = [photo |-> Null, since |-> 0]
    /\ calls = << >>
    /\ rendered = << >>
    /\ hold = NoHold
    /\ now = ResultInterval
    /\ ev = "init"
    /\ res = "?"
    /\ prevRes = "?"
    /\ nHands = 0
    /\ nSteps = 0

Init ==
    /\ \E e \in {"tree", "starry"} : InitProgram(e)
    /\ pre = State

-----------------------------------------------------------------------------------------------------------------------------------------------------
(* Steps *)

\* Every step records what led to the state
Record(e) ==
    /\ pre' = State
    /\ ev' = e
    /\ nSteps' = nSteps + 1

\* onResults with a hand in the result
OnResultsHand(inputs) ==
    /\ \E inp \in inputs, v \in RandomDraws(effect) :
         LET t == now + ResultInterval
             hovered == IF effect = "tree" /\ recognizeGesture(inp.lm) = "POINT"
                        THEN hoverResult(State, inp.hit) ELSE Null
         IN  /\ Assign(handleGestures(State, inp.lm, inp.hit, v, t))
             /\ lm' = inp.lm
             /\ res' = recognizeGesture(inp.lm)
             /\ now' = t
             /\ dwell' = IF hovered = Null THEN [photo |-> Null, since |-> 0]
                         ELSE IF dwell.photo = hovered THEN dwell
                         ELSE [photo |-> hovered, since |-> t]
             /\ hold' = [still |-> handleGestures(State, inp.lm, inp.hit, v, t).smoothedPos = lastHandPos,
                         overlay |-> expandedPhoto, closed |-> FALSE]
    /\ prevRes' = res
    /\ nHands' = nHands + 1
    /\ Record("result")
    /\ UNCHANGED << calls, rendered, frameLoops, parked, handsCallback, buttonsDisabled >>

\* onResults with no hand in the result
OnResultsNoHand ==
    /\ Assign(noHand(State))
    /\ lm' = NoFrame
    /\ res' = "NO_HAND"
    /\ prevRes' = res
    /\ now' = now + ResultInterval
    /\ dwell' = [photo |-> Null, since |-> 0]
    /\ hold' = NoHold
    /\ Record("result")
    /\ UNCHANGED << nHands, calls, rendered, frameLoops, parked, handsCallback, buttonsDisabled >>

\* onResults with a hand of fewer than 21 landmarks: handleGestures throws
OnResultsShort ==
    /\ \E f \in ShortFrames :
         /\ handleGesturesThrows(f)
         /\ Assign(handleGesturesAborted(State, f))
         /\ lm' = f
    /\ res' = "TYPE_ERROR"
    /\ prevRes' = res
    /\ now' = now + ResultInterval
    /\ dwell' = [photo |-> Null, since |-> 0]
    /\ hold' = NoHold
    /\ Record("typeError")
    /\ UNCHANGED << nHands, calls, rendered, frameLoops, parked, handsCallback, buttonsDisabled >>

\* animate: one requestAnimationFrame callback of the frame loop
AnimateWith(waves) ==
    /\ \E w \in waves :
         /\ Assign(animate(State, w))
         /\ rendered' = animateFrame(State, w).rendered
         /\ calls' = animateFrame(State, w).calls
    /\ Record("frame")
    /\ UNCHANGED << lm, res, prevRes, now, nHands, dwell, hold, frameLoops, parked, handsCallback, buttonsDisabled >>

Animate == AnimateWith(Waves)

\* onCanvasClick of the tree (the starry click handler only highlights a constellation)
OnCanvasClick(hits) ==
    /\ effect = "tree"
    /\ \E hit \in hits : Assign(handlePhotoInteraction(State, hit))
    /\ Record("click")
    /\ UNCHANGED << lm, res, prevRes, now, nHands, dwell, calls, rendered, hold, frameLoops, parked, handsCallback, buttonsDisabled >>

\* The requestAnimationFrame callback that ends an animateClose chain
AnimateCloseEnd ==
    /\ \E p \in Photos :
         /\ closeAnims[p] > 0
         /\ Assign(animateCloseEnd(State, p))
    /\ hold' = [hold EXCEPT !.closed = TRUE]
    /\ Record("closeEnd")
    /\ UNCHANGED << lm, res, prevRes, now, nHands, dwell, calls, rendered, frameLoops, parked, handsCallback, buttonsDisabled >>

\* switchEffect(mode), from the click on a switcher button to its end.
\* cleanupCurrentEffect clears the canvas and stops nothing.  The module is
\* imported at its first selection, initThreeScene runs on it and ends with a
\* call of animate, which registers one more frame loop and runs one frame.
\* When that frame throws, initThreeScene and switchEffect end there: the
\* hands callback is not replaced and the buttons stay disabled.
SwitchEffect(mode) ==
    /\ ~buttonsDisabled
    /\ mode # effect
    /\ \E w \in CalmWaves :
         LET module == IF parked = NotLoaded THEN ModuleStart(mode) ELSE parked[1]
             first == animateFrame(initThreeScene(module), w)
         IN  /\ Assign(first.s)
             /\ calls' = first.calls
             /\ rendered' = first.rendered
             /\ handsCallback' = IF first.thrown THEN handsCallback ELSE mode
             /\ buttonsDisabled' = first.thrown
    /\ parked' = << State >>
    /\ frameLoops' = [frameLoops EXCEPT ![mode] = @ + 1]
    /\ Record("switch")
    /\ UNCHANGED << lm, res, prevRes, now, nHands, dwell, hold >>

\* animate: one requestAnimationFrame callback of a frame loop of the module
\* that is not selected
AnimateParked(waves) ==
    /\ parked # NotLoaded
    /\ frameLoops[parked[1].effect] > 0
    /\ \E w \in waves :
         /\ parked' = << animate(parked[1], w) >>
         /\ rendered' = animateFrame(parked[1], w).rendered
         /\ calls' = animateFrame(parked[1], w).calls
    /\ Record("parkedFrame")
    /\ UNCHANGED << effect, lastGesture, gestureStartTime, lastHandPos, smoothedPos,
                    isGestureActive, autoRotate, gestureVelocity, isFistShape, isExploded,
                    isScattered, lastHandSize, smoothedHandSize, handSizeBaseline,
                    handSizeCalibrated, rotation, cameraZ, expandedPhoto, selectedPhoto,
                    inScene, closeAnims, starPos, starVel, particle, photoBody, gift, treeStar,
                    giftBoxes, giftTargets, giftSphereTargets, frameLoops, handsCallback,
                    buttonsDisabled, lm, res, prevRes, now, nHands, dwell, hold >>

\* onResults, with a hand in the result, of the module that is not selected
\* and is still the hands callback
OnResultsParked(inputs) ==
    /\ parked # NotLoaded
    /\ handsCallback = parked[1].effect
    /\ \E inp \in inputs, v \in RandomDraws(parked[1].effect) :
         /\ parked' = << handleGestures(parked[1], inp.lm, inp.hit, v, now + ResultInterval) >>
         /\ lm' = inp.lm
         /\ res' = recognizeGesture(inp.lm)
    /\ prevRes' = res
    /\ now' = now + ResultInterval
    /\ nHands' = nHands + 1
    /\ dwell' = [photo |-> Null, since |-> 0]
    /\ hold' = NoHold
    /\ Record("parkedResult")
    /\ UNCHANGED << effect, lastGesture, gestureStartTime, lastHandPos, smoothedPos,
                    isGestureActive, autoRotate, gestureVelocity, isFistShape, isExploded,
                    isScattered, lastHandSize, smoothedHandSize, handSizeBaseline,
                    handSizeCalibrated, rotation, cameraZ, expandedPhoto, selectedPhoto,
                    inScene, closeAnims, starPos, starVel, particle, photoBody, gift, treeStar,
                    giftBoxes, giftTargets, giftSphereTargets, frameLoops, handsCallback,
                    buttonsDisabled, calls, rendered >>

-----------------------------------------------------------------------------
(* Specifications *)

\* Both effects, every pose, clicks and frames, in any order
Next ==
    \/ nSteps < MaxSteps /\ OnResultsHand(PoseInputs)
    \/ nSteps < MaxSteps /\ OnResultsNoHand
    \/ nSteps < MaxSteps /\ Animate
    \/ nSteps < MaxSteps /\ OnCanvasClick(Photos \cup {Null})
    \/ nSteps < MaxSteps /\ AnimateCloseEnd

Spec == Init /\ [][Next]_vars

\* The tree with a photo wall that is clicked while the hand makes a fist or
\* the V sign, or leaves the image
InitPhoto ==
    /\ InitProgram("tree")
    /\ pre = State

NextPhoto ==
    \/ nSteps < MaxPhotoSteps /\ OnResultsHand(FistInputs)
    \/ nSteps < MaxPhotoSteps /\ OnResultsNoHand
    \/ nSteps < MaxPhotoSteps /\ OnCanvasClick({"photoA"})
    \/ nSteps < MaxPhotoSteps /\ AnimateCloseEnd

SpecPhoto == InitPhoto /\ [][NextPhoto]_vars

\* A hand that drags for at most MaxDrags detector results and then lets go,
\* and the animation frames that follow
NextInertia ==
    \/ nHands < MaxDrags /\ nSteps = nHands /\ OnResultsHand(DragInputs)
    \/ nSteps = nHands /\ OnResultsNoHand
    \/ nSteps < MaxInertiaSteps /\ AnimateWith(CalmWaves)

SpecInertia == Init /\ [][NextInertia]_vars

\* An open palm that drags and then rests, over a photo wall that is clicked
NextHold ==
    \/ nSteps < MaxHoldSteps /\ OnResultsHand(HoldInputs)
    \/ nSteps < MaxHoldSteps /\ OnResultsNoHand
    \/ nSteps < MaxHoldSteps /\ AnimateWith(CalmWaves)
    \/ nSteps < MaxHoldSteps /\ OnCanvasClick({"photoA"})
    \/ nSteps < MaxHoldSteps /\ AnimateCloseEnd

SpecHold == Init /\ [][NextHold]_vars

\* The tree left alone in formation mode, its particles without turbulence
InitConverge ==
    /\ InitProgram("tree")
    /\ pre = State

StartConverge ==
    /\ ev = "init"
    /\ \E b \in ConvergeStarts : Assign([State EXCEPT !.particle = b])
    /\ Record("start")
    /\ UNCHANGED << lm, res, prevRes, now, nHands, dwell, calls, rendered, hold, frameLoops, parked, handsCallback, buttonsDisabled >>

NextConverge ==
    \/ StartConverge
    \/ ev # "init" /\ nSteps < MaxConvergeSteps /\ AnimateWith(NoWaves)

SpecConverge == InitConverge /\ [][NextConverge]_vars

\* The tree, exploded by a V sign or not, and the animation frames that follow
NextStar ==
    \/ nSteps = 0 /\ OnResultsHand(VSignInputs)
    \/ nSteps < MaxStarSteps /\ AnimateWith(CalmWaves)

SpecStar == InitPhoto /\ [][NextStar]_vars

\* The photo wall of the tree: clicks on either photo, hands that close the
\* expanded photo, and the animateClose chains, each of which runs to its end
NextClose ==
    \/ nSteps < MaxCloseSteps /\ OnCanvasClick(Photos)
    \/ nSteps < MaxCloseSteps /\ OnResultsHand(CloseInputs)
    \/ AnimateCloseEnd

SpecClose == InitPhoto /\ [][NextClose]_vars

\* requestAnimationFrame calls every callback it was given: a chain in flight
\* gets its last call
SpecCloseFair == SpecClose /\ WF_vars(AnimateCloseEnd)

\* The page of the effect switcher: it starts with the tree, the buttons switch
\* between the two effects, the hand shows the V sign or an open palm, and
\* the frame loops of both modules run
InitSwitch ==
    /\ InitProgram("tree")
    /\ pre = State

NextSwitch ==
    \/ nSteps < MaxSwitchSteps /\ \E mode \in Effects : SwitchEffect(mode)
    \/ nSteps < MaxSwitchSteps /\ handsCallback = effect /\ OnResultsHand(SwitchInputs)
    \/ nSteps < MaxSwitchSteps /\ OnResultsParked(SwitchInputs)
    \/ nSteps < MaxSwitchSteps /\ AnimateWith(CalmWaves)
    \/ nSteps < MaxSwitchSteps /\ AnimateParked(CalmWaves)

SpecSwitch == InitSwitch /\ [][NextSwitch]_vars

\* A hand that zooms by its distance and by pinching, with degenerate detector
\* results among the others: landmarks of hand size 0, and fewer than 21 landmarks
NextDegenerate ==
    \/ nSteps < MaxDegenerateSteps /\ OnResultsHand(ZoomInputs)
    \/ nSteps < MaxDegenerateSteps /\ OnResultsShort
    \/ nSteps < MaxDegenerateSteps /\ OnResultsNoHand
    \/ nSteps < MaxDegenerateSteps /\ Animate

SpecDegenerate == Init /\ [][NextDegenerate]_vars

\* The classifier alone, on every frame of ClassifierFrames
ThumbOffsets ==
    { <<0, 0>>, <<359, 480>>, <<360, 480>>, <<599, 0>>, <<600, 0>>, <<500, 500>>, <<-2000, 1500>> }

ClassifierFrames ==
    { MakeFrame(5000, 5000, 1000, th, ie, me, re, pe) :
        th \in ThumbOffsets, ie \in BOOLEAN, me \in BOOLEAN, re \in BOOLEAN, pe \in BOOLEAN }

InitClassify ==
    /\ \E e \in {"tree", "starry"} : InitProgram(e)
    /\ pre = State

\* recognizeGesture(lm), as handleGestures calls it
Recognize ==
    /\ ev = "init"
    /\ \E f \in ClassifierFrames :
         /\ lm' = f
         /\ res' = recognizeGesture(f)
    /\ Record("recognize")
    /\ UNCHANGED << effect, lastGesture, gestureStartTime, lastHandPos, smoothedPos,
                    isGestureActive, autoRotate, gestureVelocity, isFistShape, isExploded,
                    isScattered, lastHandSize, smoothedHandSize, handSizeBaseline,
                    handSizeCalibrated, rotation, cameraZ, expandedPhoto, selectedPhoto,
                    inScene, closeAnims, starPos, starVel, particle, photoBody, gift, treeStar,
                    giftBoxes, giftTargets, giftSphereTargets, frameLoops, parked, handsCallback, buttonsDisabled,
                    now, prevRes, nHands, dwell, calls, rendered, hold >>

SpecClassify == InitClassify /\ [][Recognize]_vars

-----------------------------------------------------------------------------
(* Properties *)

\* The index-tip / thumb-tip distance of f is below 0.06 (compared by squares)
PinchClose(f) ==
    (f[8].x - f[4].x) * (f[8].x - f[4].x) + (f[8].y - f[4].y) * (f[8].y - f[4].y)
        < PinchThreshold * PinchThreshold

\* The fingers among index, middle, ring, pinky whose tip is above its PIP joint
Extended(f) ==
    { k \in {"index", "middle", "ring", "pinky"} :
        \/ k = "index" /\ f[8].y < f[6].y
        \/ k = "middle" /\ f[12].y < f[10].y
        \/ k = "ring" /\ f[16].y < f[14].y
        \/ k = "pinky" /\ f[20].y < f[18].y }

\* The latest step was a detector result, with a hand / classified g
AfterHand == ev = "result" /\ res # "NO_HAND"
AfterGesture(g) == ev = "result" /\ res = g

\* isExploded of the tree, isScattered of the starry night
Mode == IF effect = "tree" THEN isExploded ELSE isScattered
PreMode == IF effect = "tree" THEN pre.isExploded ELSE pre.isScattered

\* C1: every landmark frame whose index-tip / thumb-tip distance is below 0.06
\* is classified PINCH, whatever the four fingers do.
C1_PinchFirst ==
    ev = "recognize" /\ PinchClose(lm) => res = "PINCH"

\* C1 witness: a pinch with all four fingers curled, which the fist rule would match.
C1_Witness ==
    ev = "recognize" /\ PinchClose(lm) /\ Extended(lm) = {} /\ res = "PINCH"

\* C2: a landmark frame whose pinch distance is at least 0.06 gets the label
\* its four extension predicates determine: FIST for none extended, OPEN_PALM
\* for all four, V_SIGN for exactly index and middle, POINT for exactly index,
\* NONE for each of the other eleven combinations.
C2_LabelByFingers ==
    ev = "recognize" /\ ~PinchClose(lm) =>
        res = CASE Extended(lm) = {} -> "FIST"
                [] Extended(lm) = {"index", "middle", "ring", "pinky"} -> "OPEN_PALM"
                [] Extended(lm) = {"index", "middle"} -> "V_SIGN"
                [] Extended(lm) = {"index"} -> "POINT"
                [] OTHER -> "NONE"

\* C2 witness: the thumb exactly 0.06 from the index tip, three fingers
\* extended: one of the eleven combinations, classified NONE.
C2_Witness ==
    /\ ev = "recognize"
    /\ lm[4].x - lm[8].x = 360 /\ lm[4].y - lm[8].y = 480
    /\ Extended(lm) = {"index", "middle", "ring"}
    /\ res = "NONE"

\* C3 (as claimed): of a run of consecutive V_SIGN results with no photo
\* expanded, the first flips isExploded / isScattered and the others leave it
\* unchanged.
C3_ToggleOncePerRun ==
    AfterGesture("V_SIGN") /\ pre.expandedPhoto = Null =>
        IF prevRes # "V_SIGN" THEN Mode # PreMode ELSE Mode = PreMode

\* C4 (as claimed): a V_SIGN result whose preceding detector result was not
\* V_SIGN (another gesture, or no hand), with no photo expanded, flips
\* isExploded / isScattered.
C4_ToggleOnEntry ==
    AfterGesture("V_SIGN") /\ prevRes # "V_SIGN" /\ pre.expandedPhoto = Null
        => Mode # PreMode

\* C5 (as claimed): after a detector result, isFistShape is true only if that
\* result was classified FIST.
C5_SphereOnlyWhileFist ==
    isFistShape => res = "FIST"

\* C6 (as claimed): a FIST result whose preceding result was not FIST, with the
\* scene exploded (tree, no photo expanded) or scattered (starry) before the
\* callback, leaves it gathered.
C6_FistGathers ==
    /\ AfterGesture("FIST") /\ prevRes # "FIST"
    /\ \/ effect = "tree" /\ pre.isExploded /\ pre.expandedPhoto = Null
       \/ effect = "starry" /\ pre.isScattered
    => ~isExploded /\ ~isScattered

\* C7 (as claimed): while isScattered is true an animation frame moves the
\* star by the scatter velocity that scatterStars gave it.
C7_ScatteredStarsMove ==
    ev = "frame" /\ effect = "starry" /\ pre.isScattered =>
        starPos = << pre.starPos[1] + pre.starVel[1],
                     pre.starPos[2] + pre.starVel[2],
                     pre.starPos[3] + pre.starVel[3] >>

\* C8: after a detector result with no hand, isGestureActive is false and
\* autoRotate is true, whatever went before.
C8_HandLossCancels ==
    AfterGesture("NO_HAND") => ~isGestureActive /\ autoRotate

\* C8 witness: the hand is lost while a drag gesture is active.
C8_Witness ==
    AfterGesture("NO_HAND") /\ pre.isGestureActive /\ ~pre.autoRotate
        /\ ~isGestureActive /\ autoRotate

\* C9 (as claimed): a result with no hand leaves handSizeCalibrated false, and
\* the next result with a hand sets handSizeBaseline and smoothedHandSize to
\* that frame's hand size.
C9_HandLossRecalibrates ==
    /\ AfterGesture("NO_HAND") => ~handSizeCalibrated
    /\ AfterHand /\ prevRes = "NO_HAND" =>
          /\ handSizeBaseline = getHandSize(lm)
          /\ smoothedHandSize = getHandSize(lm)

\* C9 (amended): hand loss does not re-arm the calibration.  A result with no
\* hand leaves handSizeCalibrated, handSizeBaseline and smoothedHandSize as
\* they were, and the first result with a hand after a loss that follows an
\* earlier detection leaves handSizeBaseline unchanged and filters
\* smoothedHandSize.
C9_HandLossKeepsCalibration ==
    /\ AfterGesture("NO_HAND") =>
          /\ handSizeCalibrated = pre.handSizeCalibrated
          /\ handSizeBaseline = pre.handSizeBaseline
          /\ smoothedHandSize = pre.smoothedHandSize
    /\ AfterHand /\ prevRes = "NO_HAND" /\ nHands > 1 =>
          /\ handSizeCalibrated
          /\ handSizeBaseline = pre.handSizeBaseline
          /\ smoothedHandSize = (8 * pre.smoothedHandSize + 2 * getHandSize(lm)) \div 10

\* C9 witness: a hand of another size than the baseline is detected again
\* after a loss.
C9_Witness ==
    /\ AfterHand /\ prevRes = "NO_HAND" /\ nHands > 1
    /\ getHandSize(lm) # handSizeBaseline
    /\ handSizeBaseline = pre.handSizeBaseline

\* C10: the first frame with a hand sets handSizeBaseline = smoothedHandSize =
\* the frame's hand size, unfiltered, and handSizeCalibrated; every later
\* frame of the same continuous detection leaves handSizeBaseline unchanged
\* and sets smoothedHandSize to 0.8 * smoothedHandSize + 0.2 * hand size.
C10_CalibrateOnce ==
    /\ AfterHand /\ nHands = 1 =>
          /\ handSizeBaseline = getHandSize(lm)
          /\ smoothedHandSize = getHandSize(lm)
          /\ handSizeCalibrated
    /\ AfterHand /\ prevRes \in Gestures =>
          /\ handSizeBaseline = pre.handSizeBaseline
          /\ smoothedHandSize = (8 * pre.smoothedHandSize + 2 * getHandSize(lm)) \div 10
          /\ handSizeCalibrated

\* C10 witness: the second frame of a detection shows a hand of another size
\* than the first, so the filtered size differs from both.
C10_Witness ==
    /\ AfterHand /\ prevRes \in Gestures /\ nHands = 2
    /\ getHandSize(lm) # pre.smoothedHandSize
    /\ smoothedHandSize # getHandSize(lm)
    /\ smoothedHandSize # pre.smoothedHandSize
    /\ handSizeBaseline = pre.handSizeBaseline

\* The gestures that drag the scene: OPEN_PALM and FIST rotate, PINCH zooms
DragGestures == {"OPEN_PALM", "PINCH", "FIST"}

\* C11 (as claimed): after a detector result has been processed, autoRotate is
\* true exactly when that result is not a drag gesture (OPEN_PALM, PINCH or
\* FIST) and no photo is expanded.
C11_AutoRotateIff ==
    ev = "result" =>
        (autoRotate <=> (res \notin DragGestures /\ expandedPhoto = Null))

\* C12 (as claimed): a detector callback that rotates the group through
\* OPEN_PALM or FIST returns with autoRotate false.
C12_DragExcludesAutoRotate ==
    /\ ev = "result" /\ res \in {"OPEN_PALM", "FIST"}
    /\ rotation # pre.rotation
    => ~autoRotate

\* C13: the group's X rotation is within the clamp bounds, [-0.5, 0.5] for the
\* tree and [-0.8, 0.8] for the starry night, in every reachable state.
C13_RotationXClamped ==
    /\ rotation.x >= -RotXBound(effect)
    /\ rotation.x <= RotXBound(effect)

\* C13 witness: an inertia frame whose velocity would carry the X rotation
\* past the bound leaves it on the bound.
C13_Witness ==
    /\ ev = "frame"
    /\ pre.rotation.x + pre.gestureVelocity.rotX > RotXBound(effect)
    /\ gestureVelocity.rotX # pre.gestureVelocity.rotX
    /\ rotation.x = RotXBound(effect)

\* C14 (as claimed): camera z is within [minZ, maxZ] in every reachable state,
\* for every hand size including 0.
C14_CameraZInRange ==
    /\ cameraZ >= MinZ(effect)
    /\ cameraZ <= MaxZ(effect)

\* C15 (as claimed): a detector result whose hand has fewer than 21 landmarks
\* is handled as the NONE gesture: the callback completes without reading a
\* missing landmark, isGestureActive is false after it, and rotation and
\* camera z are unchanged.
C15_ShortFrameIsNone ==
    ev \in {"result", "typeError"} /\ res # "NO_HAND" /\ Cardinality(DOMAIN lm) < 21 =>
        /\ ev = "result"
        /\ ~isGestureActive
        /\ rotation = pre.rotation
        /\ cameraZ = pre.cameraZ

\* C16 (as claimed): the distance zoom is a no-op when handSizeBaseline is 0:
\* an OPEN_PALM result processed with a baseline of 0 leaves camera z unchanged.
C16_NoZoomOnZeroBaseline ==
    ev = "result" /\ res = "OPEN_PALM" /\ handSizeBaseline = 0
        => cameraZ = pre.cameraZ

\* C17 (as claimed): the POINT branch expands a photo only if that photo has
\* been the hovered target, with POINT as the gesture, on every detector
\* result for more than 500 ms; and the dwell timer (gestureStartTime) is
\* restarted, to zero or to the current time, by every result that changes the
\* hovered photo or is not POINT.
C17_DwellRequired ==
    /\ ev = "result" /\ res = "POINT" /\ pre.expandedPhoto = Null /\ expandedPhoto # Null
          => dwell.photo = expandedPhoto /\ now - dwell.since > 500
    /\ ev = "result" /\ effect = "tree" /\ (dwell.photo = Null \/ dwell.since = now)
          => gestureStartTime \in {0, now}

\* The latest step was an animation frame in which the inertia integrator ran
InertiaRuns ==
    /\ ev = "frame"
    /\ ~pre.isGestureActive
    /\ effect = "tree" => pre.expandedPhoto = Null /\ ~pre.isExploded

\* v1 is v0 times pct / 100, to the resolution of the model
Decayed(v0, v1, pct) == Abs(100 * v1 - pct * v0) < 100

\* What the auto-rotation of the same frame adds to rotation.y
AutoSpin ==
    IF pre.autoRotate /\ (effect = "tree" => ~pre.isExploded)
    THEN AutoRotateStep(effect) ELSE 0

ClampedX(x) == Clamp(-RotXBound(effect), RotXBound(effect), x)

\* C18 (as claimed): on an inertia frame every velocity component above its
\* cutoff is added to what it drives and multiplied by 0.95 (rotation) or 0.92
\* (zoom), and a component below its cutoff is left unchanged, as is the
\* rotation or camera z it drives.
C18_DecayPerComponent ==
    InertiaRuns =>
        /\ Abs(pre.gestureVelocity.rotX) > RotCutoff =>
              /\ Decayed(pre.gestureVelocity.rotX, gestureVelocity.rotX, 95)
              /\ rotation.x = ClampedX(pre.rotation.x + pre.gestureVelocity.rotX)
        /\ Abs(pre.gestureVelocity.rotX) < RotCutoff =>
              /\ gestureVelocity.rotX = pre.gestureVelocity.rotX
              /\ rotation.x = pre.rotation.x
        /\ Abs(pre.gestureVelocity.rotY) > RotCutoff =>
              /\ Decayed(pre.gestureVelocity.rotY, gestureVelocity.rotY, 95)
              /\ rotation.y = pre.rotation.y + pre.gestureVelocity.rotY + AutoSpin
        /\ Abs(pre.gestureVelocity.rotY) < RotCutoff =>
              /\ gestureVelocity.rotY = pre.gestureVelocity.rotY
              /\ rotation.y = pre.rotation.y + AutoSpin
        /\ Abs(pre.gestureVelocity.zoom) > ZoomCutoff =>
              /\ Decayed(pre.gestureVelocity.zoom, gestureVelocity.zoom, 92)
              /\ cameraZ = Clamp(MinZ(effect), MaxZ(effect), pre.cameraZ + pre.gestureVelocity.zoom)
        /\ Abs(pre.gestureVelocity.zoom) < ZoomCutoff =>
              /\ gestureVelocity.zoom = pre.gestureVelocity.zoom
              /\ cameraZ = pre.cameraZ

\* C18 (amended): the two rotation components decay together.  On an inertia
\* frame, if either rotation component exceeds 0.0001 both are added to the
\* rotation (X clamped) and both are multiplied by 0.95, and otherwise neither
\* they nor the rotation they drive change; the zoom velocity, if it exceeds
\* 0.001, is added to camera z (clamped) and multiplied by 0.92, and otherwise
\* neither it nor camera z changes.
C18_InertiaDecay ==
    InertiaRuns =>
        /\ IF \/ Abs(pre.gestureVelocity.rotX) > RotCutoff
              \/ Abs(pre.gestureVelocity.rotY) > RotCutoff
           THEN /\ Decayed(pre.gestureVelocity.rotX, gestureVelocity.rotX, 95)
                /\ Decayed(pre.gestureVelocity.rotY, gestureVelocity.rotY, 95)
                /\ rotation.x = ClampedX(pre.rotation.x + pre.gestureVelocity.rotX)
                /\ rotation.y = pre.rotation.y + pre.gestureVelocity.rotY + AutoSpin
           ELSE /\ gestureVelocity.rotX = pre.gestureVelocity.rotX
                /\ gestureVelocity.rotY = pre.gestureVelocity.rotY
                /\ rotation.x = pre.rotation.x
                /\ rotation.y = pre.rotation.y + AutoSpin
        /\ IF Abs(pre.gestureVelocity.zoom) > ZoomCutoff
           THEN /\ Decayed(pre.gestureVelocity.zoom, gestureVelocity.zoom, 92)
                /\ cameraZ = Clamp(MinZ(effect), MaxZ(effect), pre.cameraZ + pre.gestureVelocity.zoom)
           ELSE /\ gestureVelocity.zoom = pre.gestureVelocity.zoom
                /\ cameraZ = pre.cameraZ

\* C18 witness: an inertia frame finds the X component below the cutoff and
\* not zero while the Y component is above it, and integrates and decays both.
C18_Witness ==
    /\ InertiaRuns
    /\ pre.gestureVelocity.rotX # 0
    /\ Abs(pre.gestureVelocity.rotX) < RotCutoff
    /\ Abs(pre.gestureVelocity.rotY) > RotCutoff
    /\ gestureVelocity.rotX # pre.gestureVelocity.rotX
    /\ rotation.x = pre.rotation.x + pre.gestureVelocity.rotX

\* The speed of a velocity is at most cap
Within(vel, cap) == LengthSq(vel) <= cap * cap

\* C19 (as claimed): after every animation frame of the tree the speed of the
\* particle is at most 0.015, of each photo at most 0.08 and of the gift box
\* at most 0.06.
C19_SpeedCapped ==
    ev = "frame" /\ effect = "tree" =>
        /\ Within(particle.vel, MaxSpeed)
        /\ \A p \in Photos : Within(photoBody[p].vel, PhotoMaxSpeed)
        /\ Within(gift.vel, GiftMaxSpeed)

\* C19 (amended): after every animation frame of the tree the speed of the
\* particle is at most 0.015, of the gift box at most 0.06 and of each photo
\* that is not expanded at most 0.08, and each of them has moved by exactly
\* that velocity; the expanded photo is skipped: the frame changes neither
\* its velocity nor its position.
C19_SpeedCappedUnlessExpanded ==
    ev = "frame" /\ effect = "tree" =>
        /\ Within(particle.vel, MaxSpeed)
        /\ particle.pos = VAdd(pre.particle.pos, particle.vel)
        /\ Within(gift.vel, GiftMaxSpeed)
        /\ gift.pos = VAdd(pre.gift.pos, gift.vel)
        /\ \A p \in Photos :
              IF p = expandedPhoto
              THEN photoBody[p] = pre.photoBody[p]
              ELSE /\ Within(photoBody[p].vel, PhotoMaxSpeed)
                   /\ photoBody[p].pos = VAdd(pre.photoBody[p].pos, photoBody[p].vel)

\* C19 witness: the first frame after explodeParticles finds the particle, a
\* photo and the gift box above their caps and leaves them within.
C19_Witness ==
    /\ ev = "frame" /\ effect = "tree" /\ isExploded
    /\ ~Within(pre.particle.vel, MaxSpeed) /\ Within(particle.vel, MaxSpeed)
    /\ ~Within(pre.gift.vel, GiftMaxSpeed) /\ Within(gift.vel, GiftMaxSpeed)
    /\ \E p \in Photos :
          /\ p # expandedPhoto
          /\ ~Within(pre.photoBody[p].vel, PhotoMaxSpeed)
          /\ Within(photoBody[p].vel, PhotoMaxSpeed)

\* The statements of the latest frame that update a particle set
PhysicsCalls ==
    { "updateParticlePhysics", "updatePhotoPhysics", "updateGiftPhysics", "treeStar",
      "updateConstellationStars", "updateConstellationLines", "updateShootingStars" }

HeldStill == res = "OPEN_PALM" /\ hold.still

\* C21 (as claimed): a detector result classified OPEN_PALM with deltaX =
\* deltaY = 0 leaves the rotation as it was and records the rotation velocity
\* 0, and no animation frame before the next detector result changes the
\* rotation.
C21_HoldIsFixedPoint ==
    /\ ev = "result" /\ HeldStill =>
          /\ rotation = pre.rotation
          /\ gestureVelocity.rotX = 0 /\ gestureVelocity.rotY = 0
    /\ ev = "frame" /\ HeldStill => rotation = pre.rotation

\* C21 (amended): a detector result classified OPEN_PALM with deltaX = deltaY
\* = 0 leaves the rotation as it was.  When no photo is expanded as it
\* arrives, it records the rotation velocity 0, and no animation frame before
\* the next detector result changes the rotation until an animateClose chain
\* ends.  When a photo is expanded it only starts closing the photo and leaves
\* the recorded velocity as it was.
C21_HoldIsFixedPointNoOverlay ==
    /\ ev = "result" /\ HeldStill =>
          /\ rotation = pre.rotation
          /\ IF hold.overlay = Null
             THEN gestureVelocity.rotX = 0 /\ gestureVelocity.rotY = 0
             ELSE gestureVelocity = pre.gestureVelocity
    /\ ev = "frame" /\ HeldStill /\ hold.overlay = Null /\ ~hold.closed =>
          rotation = pre.rotation

\* C21 witness: an animation frame after an open palm that dragged the group
\* and then rested, with no photo expanded
C21_Witness ==
    /\ ev = "frame" /\ HeldStill /\ hold.overlay = Null /\ ~hold.closed
    /\ prevRes = "OPEN_PALM"
    /\ rotation.y # 0 /\ rotation = pre.rotation
    /\ gestureVelocity.rotX = 0 /\ gestureVelocity.rotY = 0

\* The square of the distance of the particle of state s to its tree target
TargetDistSq(s) == LengthSq(VSub(ParticleTarget, s.particle.pos))

\* Formation mode: neither exploded nor in the sphere
Formation(s) == ~s.isExploded /\ ~s.isFistShape

\* The distance, per axis, below which the attraction of the target (0.008 of
\* it) and the damping round to no movement in the model's fixed point
Resolution == 2 * (1000 \div 8)

PinchedZ ==
    ClampZ(effect, AddZ(pre.cameraZ, -(smoothedPos.y - pre.lastHandPos.y) * 10))

\* C23: a detector result changes camera z only when it is classified
\* OPEN_PALM (the distance zoom) or PINCH (by the pinch's own delta, without
\* the distance zoom), and while a photo is expanded no detector result and
\* no animation frame changes camera z.
C23_DistanceZoomOnlyOpenPalm ==
    /\ ev = "result" /\ res \notin {"OPEN_PALM", "PINCH"} => cameraZ = pre.cameraZ
    /\ ev = "result" /\ res = "PINCH" /\ pre.expandedPhoto = Null => cameraZ = PinchedZ
    /\ ev \in {"result", "frame"} /\ pre.expandedPhoto # Null => cameraZ = pre.cameraZ

\* C23 witness: an open palm nearer than the calibrated one arrives while a
\* photo is expanded, and the camera stays where it is
C23_Witness ==
    /\ ev = "result" /\ res = "OPEN_PALM" /\ pre.expandedPhoto # Null
    /\ handSizeCalibrated /\ smoothedHandSize > handSizeBaseline
    /\ cameraZ = pre.cameraZ

\* C24: no animation frame that follows a detector result classified
\* OPEN_PALM, PINCH or FIST lets the inertia integrator act: gestureVelocity
\* is neither added to the rotation or to camera z nor decayed (the rotation
\* changes by the auto-rotation only).
C24_NoInertiaWhileDragging ==
    ev = "frame" /\ res \in DragGestures =>
        /\ gestureVelocity = pre.gestureVelocity
        /\ rotation.x = pre.rotation.x
        /\ rotation.y = pre.rotation.y + AutoSpin
        /\ cameraZ = pre.cameraZ

\* C25: an animation frame changes none of lastGesture, lastHandPos,
\* smoothedPos, smoothedHandSize, handSizeBaseline, handSizeCalibrated,
\* isExploded and isFistShape, and leaves gestureVelocity as it was while
\* isGestureActive is true.
C25_FramesKeepGestureState ==
    ev = "frame" =>
        /\ lastGesture = pre.lastGesture
        /\ lastHandPos = pre.lastHandPos
        /\ smoothedPos = pre.smoothedPos
        /\ smoothedHandSize = pre.smoothedHandSize
        /\ handSizeBaseline = pre.handSizeBaseline
        /\ handSizeCalibrated = pre.handSizeCalibrated
        /\ isExploded = pre.isExploded
        /\ isFistShape = pre.isFistShape
        /\ pre.isGestureActive => gestureVelocity = pre.gestureVelocity

\* C25 witness: a frame while an open palm or a pinch is dragging at a speed
\* the integrator would otherwise decay
C25_Witness ==
    /\ ev = "frame" /\ pre.isGestureActive
    /\ pre.expandedPhoto = Null /\ ~pre.isExploded
    /\ \/ Abs(pre.gestureVelocity.rotY) > RotCutoff
       \/ Abs(pre.gestureVelocity.zoom) > ZoomCutoff
    /\ gestureVelocity = pre.gestureVelocity
    /\ lastGesture \in {"OPEN_PALM", "PINCH"}

\* The largest speed, per axis, that explodeParticles gives to anything: the
\* upward 0.1 + 0.05 of the star and of a particle
LargestExplosionSpeed == 1500

\* C26: in exploded mode the star on the tree top moves, in every frame, by no
\* more than a fixed cap (here the largest speed an explosion assigns).
C26_StarDisplacementCapped ==
    ev = "frame" /\ pre.isExploded =>
        Abs(treeStar.pos[2] - pre.treeStar.pos[2]) <= LargestExplosionSpeed

\* C27: expandedPhoto names the one photo that is detached from the tree
\* group: none when it is null, and otherwise exactly that photo.
C27_ExpandedPhotoIsDetached ==
    IF expandedPhoto = Null THEN inScene = {} ELSE inScene = {expandedPhoto}

\* A close animation of photo p is in flight
Closing(p) == closeAnims[p] > 0

\* Photo p is closed: no photo is expanded and p is in the tree group
Closed(p) == expandedPhoto = Null /\ p \notin inScene

\* C28: once closeExpandedPhoto has been invoked on an expanded photo, then
\* eventually no photo is expanded and that photo is back in the tree group.
C28_CloseCompletes ==
    /\ Closing("photoA") ~> Closed("photoA")
    /\ Closing("photoB") ~> Closed("photoB")

\* C28 witness: a close animation ends and leaves its photo closed although
\* closeExpandedPhoto had been invoked again for it in the meantime
C28_Witness ==
    /\ ev = "closeEnd" /\ pre.expandedPhoto # Null
    /\ pre.closeAnims[pre.expandedPhoto] >= 2
    /\ closeAnims[pre.expandedPhoto] = pre.closeAnims[pre.expandedPhoto] - 1
    /\ Closed(pre.expandedPhoto)

-----------------------------------------------------------------------------
(* Effect switcher *)

\* The three gift arrays of a module state have the same length
GiftArraysAligned(s) ==
    /\ s.giftBoxes = s.giftTargets
    /\ s.giftBoxes = s.giftSphereTargets
    /\ ~giftTargetMissing(s)

\* C29: giftBoxes, giftTargets and giftSphereTargets have the same length in
\* every reachable state, also after initThreeScene has run more than once
\* (the effect switched to the starry night and back), so updateGiftPhysics
\* finds a target for every gift box it iterates over.
C29_GiftArraysAligned ==
    /\ GiftArraysAligned(State)
    /\ parked # NotLoaded => GiftArraysAligned(parked[1])

\* C30: at most one frame loop is running at any time and it belongs to the
\* selected effect: after any sequence of effect switches no loop started by
\* an earlier initThreeScene still schedules itself.
C30_OneFrameLoop ==
    /\ frameLoops[effect] = 1
    /\ \A m \in Effects \ {effect} : frameLoops[m] = 0
====
